---- MODULE Spec2Model ----
(***************************************************************************)
(* A model of the Zombie Invasion simulator (zombie_invasion.py): the grid *)
(* with its agent -> coordinate dictionary, the three character classes    *)
(* (Human, Hunter, Zombie), population seeding, the interact phase, the    *)
(* move phase and the run loop.                                            *)
(*                                                                         *)
(* The program is Python 2: dict.keys() is a list copied at the call, `/`  *)
(* on integers is floor division.  The iteration order of a dict is fixed  *)
(* by object hashes and not specified, so every loop over the dictionary   *)
(* is modelled as picking the next agent from the set still to process.    *)
(***************************************************************************)
EXTENDS Integers, FiniteSets, Sequences, TLC

(* ---------------- bounds of the model (scaled-down populations) -------- *)
\* Grid.X and Grid.Y (60 and 40 in the source), scaled down.
X == 5
Y == 2
\* Human.initial, Hunter.initial, Zombie.initial (30, 60, 3), scaled down.
NumHumans == 1
NumHunters == 1
NumZombies == 1
\* The run loop has no turn cap; the model stops starting turns here.
MaxTurn == 3

(* ---------------- program constants ------------------------------------ *)
HumanNpaces == 3
ZombieNpaces == 1
slugs == 3
reload_turns == 3

\* Python's None for a coordinate-valued attribute or local (a tuple of length 0).
None == <<>>
\* Python's None for Hunter.last_shot (turn numbers are >= 0).
NoShot == -1

HumanIds == 1..NumHumans
HunterIds == (NumHumans + 1)..(NumHumans + NumHunters)
ZombieIds == (NumHumans + NumHunters + 1)..(NumHumans + NumHunters + NumZombies)
Agents == HumanIds \cup HunterIds \cup ZombieIds

\* The class an agent is constructed with.
InitialClass(a) ==
  IF a \in HumanIds THEN "Human" ELSE IF a \in HunterIds THEN "Hunter" ELSE "Zombie"

\* The values of character_types the repository uses: the class default and
\* the configuration of tests.py.
DefaultCharacterTypes == <<"Human", "Hunter", "Zombie">>
TestCharacterTypes == <<"Human", "Zombie">>
CharacterTypeConfigs == {DefaultCharacterTypes, TestCharacterTypes}

VARIABLES
  character_types,  \* ZombieInvasion.character_types (possibly set by config)
  positions,        \* Grid.positions: a dict, agent -> coordinate
  class,            \* the __class__ of every created agent
  slugs_left,       \* Hunter.slugs_left
  last_shot,        \* Hunter.last_shot
  last_hunted,      \* Zombie.last_hunted (a coordinate, or None)
  turn,             \* Grid.turn
  pc,               \* where run() stands: "run", "interact", "move", "done"
  todo,             \* agents the current phase's loop has still to visit
  newpos,           \* move_characters' local newpos of the last agent visited
  npaces,           \* npaces set on an instance (Human.npaces, Zombie.npaces if unset)
  hunted            \* history: the Human-kind agents that stood on the coordinate
                    \* a Zombie walked to at its last move

vars == <<character_types, positions, class, slugs_left, last_shot, last_hunted,
          turn, pc, todo, newpos, npaces, hunted>>

Abs(n) == IF n < 0 THEN -n ELSE n

(* ---------------- Grid queries ----------------------------------------- *)
\* isinstance(c, character_type) on a class name: Hunter is a subclass of Human.
IsInstance(cls, character_type) ==
  \/ cls = character_type
  \/ cls = "Hunter" /\ character_type = "Human"

\* positions_of without its isinstance filter: the positions of every agent.
positions_ofAnyType(P, K, character_type) ==
  {P[c] : c \in DOMAIN P}

\* Grid.positions_of, as the set of the list's elements.
positions_of(P, K, character_type) ==
  {P[c] : c \in {d \in DOMAIN P : IsInstance(K[d], character_type)}}

\* Grid.count_of on a dictionary P with classes K.
count_of(P, K, character_type) ==
  Cardinality({c \in DOMAIN P : IsInstance(K[c], character_type)})

\* Grid.remove: del positions[character], a missing key is ignored.
remove(P, character) ==
  [c \in (DOMAIN P) \ {character} |-> P[c]]

\* Adjacency as Chebyshev distance 1, which also holds of orthogonal neighbours.
is_adjacentChebyshev(pos1, pos2) ==
  /\ Abs(pos1[1] - pos2[1]) <= 1
  /\ Abs(pos1[2] - pos2[2]) <= 1
  /\ pos1 # pos2

is_adjacent(pos1, pos2) ==
  (Abs(pos1[1] - pos2[1]) = 1) /\ (Abs(pos1[2] - pos2[2]) = 1)

\* validate_position with the upper ends of the ranges included.
validate_positionInclusive(p) ==
  (0 <= p[1] /\ p[1] <= X) /\ (0 <= p[2] /\ p[2] <= Y)

\* Character.validate_position: TRUE when it returns, FALSE when it raises
\* InvalidPositionError.
validate_position(p) ==
  (0 <= p[1] /\ p[1] < X) /\ (0 <= p[2] /\ p[2] < Y)

(* ---------------- population seeding ----------------------------------- *)
\* Character.get_random_position: randint(0, X - 1), randint(0, Y - 1).
CharacterRandomPositions == (0..(X - 1)) \X (0..(Y - 1))

\* Zombie.get_random_position draws randint(0, X), randint(0, Y), both ends
\* included, until the cell is not among the positions already placed.
ZombieRandomPositions(occupied) == ((0..X) \X (0..Y)) \ occupied

\* The agents character_types creates.
Created(ct) == {a \in Agents : \E i \in 1..Len(ct) : ct[i] = InitialClass(a)}

TypeIndex(ct, cls) == CHOOSE i \in 1..Len(ct) : ct[i] = cls

\* Agents placed before a by populate_positions: those of the types earlier in
\* character_types, and those of a's own type created before it.
PlacedBefore(ct, a) ==
  {b \in Created(ct) :
     \/ TypeIndex(ct, InitialClass(b)) < TypeIndex(ct, InitialClass(a))
     \/ InitialClass(b) = InitialClass(a) /\ b < a}

\* Grid.populate_positions: every dictionary the seeding can produce.
populate_positions(ct) ==
  {f \in [Created(ct) -> (0..X) \X (0..Y)] :
     \A a \in Created(ct) :
       IF InitialClass(a) = "Zombie"
       THEN f[a] \in ZombieRandomPositions({f[b] : b \in PlacedBefore(ct, a)})
       ELSE f[a] \in CharacterRandomPositions}

Init ==
  /\ character_types \in CharacterTypeConfigs
  /\ positions \in populate_positions(character_types)
  /\ class = [a \in Created(character_types) |-> InitialClass(a)]
  /\ slugs_left = [a \in Created(character_types) \cap HunterIds |-> slugs]
  /\ last_shot = [a \in Created(character_types) \cap HunterIds |-> NoShot]
  /\ last_hunted = [a \in Created(character_types) |-> None]
  /\ turn = 0
  /\ pc = "run"
  /\ todo = {}
  /\ newpos = None
  /\ npaces = << >>
  /\ hunted = [a \in Created(character_types) |-> {}]

(* ---------------- Human (and Hunter) movement -------------------------- *)
\* The vector generator its docstring describes: any of N, NE, E, SE, S, SW,
\* W, NW, the second component free whenever the first is not 0.
gen_random_vectorEightHeadings(length) ==
  {v \in {0, length, -length} \X {0, length, -length} : v # <<0, 0>>}

\* gen_random_vector: the first component is drawn from [0, length, -length];
\* the second from `[0] if vector[0] else [] + [length, -length]`, which
\* Python parses as `[0] if vector[0] else ([] + [length, -length])`.
gen_random_vector(length) ==
  {v \in {0, length, -length} \X {0, length, -length} :
     v[2] \in (IF v[1] # 0 THEN {0} ELSE {length, -length})}

\* Human.move: the coordinates it can return from pos.
HumanMove(pos) ==
  {<<pos[1] + v[1], pos[2] + v[2]>> : v \in gen_random_vector(HumanNpaces)}

(* ---------------- Zombie movement -------------------------------------- *)
\* The distance kdtree's search_knn reports: the squared Euclidean distance.
Dist(p, q) == (p[1] - q[1]) * (p[1] - q[1]) + (p[2] - q[2]) * (p[2] - q[2])

\* _find_nearest keeping the targets at distance 0.
find_nearestWithZero(pos, P, K) ==
  LET target_positions == positions_of(P, K, "Human")
  IN {q \in target_positions : \A r \in target_positions : Dist(pos, q) <= Dist(pos, r)}

\* Zombie._find_nearest(pos, Human, 2X + 2Y): the coordinates of Human-kind
\* agents at the least nonzero distance.  search_knn returns every target
\* because the Human-kind population is below 2X + 2Y (90 < 200 in the source).
find_nearest(pos, P, K) ==
  LET target_positions == positions_of(P, K, "Human")
      dist_list == {q \in target_positions : Dist(pos, q) # 0}
  IN {q \in dist_list : \A r \in dist_list : Dist(pos, q) <= Dist(pos, r)}

\* The shift without abs() in its divisor: +1 whatever the sign of the offset.
ShiftNoAbs(t, n) == (t - n) \div (IF t - n # 0 THEN t - n ELSE 1)

\* One coordinate's shift in _walk_to: (target - new) / (abs(target - new) or 1),
\* floor division.
Shift(t, n) == (t - n) \div (IF Abs(t - n) # 0 THEN Abs(t - n) ELSE 1)

\* A walk that moves along one axis per pace: the first whose offset is not 0.
RECURSIVE WalkLoopAxisByAxis(_, _, _)
WalkLoopAxisByAxis(p, target, paces) ==
  IF paces = 0 THEN p
  ELSE LET q == IF Shift(target[1], p[1]) # 0
                THEN <<p[1] + Shift(target[1], p[1]), p[2]>>
                ELSE <<p[1], p[2] + Shift(target[2], p[2])>>
       IN IF q = target THEN q ELSE WalkLoopAxisByAxis(q, target, paces - 1)

RECURSIVE WalkLoop(_, _, _)
WalkLoop(p, target, paces) ==
  IF paces = 0 THEN p
  ELSE LET q == <<p[1] + Shift(target[1], p[1]), p[2] + Shift(target[2], p[2])>>
       IN IF q = target THEN q ELSE WalkLoop(q, target, paces - 1)

\* Zombie._walk_to, with self.npaces = n
walk_to(pos, target, n) == WalkLoop(pos, target, n)

\* self.npaces of a Zombie: the instance attribute if one was set, else
\* Zombie.npaces.
ZombieSelfNpaces(a, N) == IF a \in DOMAIN N THEN N[a] ELSE ZombieNpaces

\* Zombie.move: every (returned coordinate, new last_hunted) it can produce
\* for a Zombie at pos remembering lh, on dictionary P with classes K.
ZombieMove(pos, lh, P, K, n) ==
  LET nearest == find_nearest(pos, P, K)
  IN IF nearest = {}
     THEN {[newpos |-> pos, last_hunted |-> lh]}
     ELSE {[newpos |-> walk_to(pos, t, n), last_hunted |-> t] :
             t \in (IF lh \notin nearest THEN nearest ELSE {lh})}

\* The Human-kind agents a Zombie's move from pos walked to: those standing on
\* the coordinate t it hunted, none if the move found no nearest.
HuntedBy(pos, t, P, K) ==
  IF find_nearest(pos, P, K) = {} THEN {}
  ELSE {c \in DOMAIN P : IsInstance(K[c], "Human") /\ P[c] = t}

\* move_characters deleting the agent whose move is forfeited.
MoveCommitDropsForfeited(P, character, np) ==
  IF validate_position(np) THEN [P EXCEPT ![character] = np] ELSE remove(P, character)

\* Grid.move_characters, the try/except/else around validate_position: the
\* dictionary after the agent's move returned np.
MoveCommit(P, character, np) ==
  IF validate_position(np) THEN [P EXCEPT ![character] = np] ELSE P

(* ---------------- interaction ------------------------------------------ *)
\* The reload check with >= for >: the refill comes one turn early.
ReloadCheckAtReloadTurns(sl, ls, t) ==
  IF sl = 0 /\ (ls = NoShot \/ t - ls >= reload_turns) THEN slugs ELSE sl

\* The reload check without its turn comparison: a Hunter that has shot
\* never refills.
ReloadCheckNeverShot(sl, ls, t) ==
  IF sl = 0 /\ ls = NoShot THEN slugs ELSE sl

\* Hunter.interact, the reload check: the slugs left after it.
ReloadCheck(sl, ls, t) ==
  IF sl = 0 /\ (ls = NoShot \/ t - ls > reload_turns) THEN slugs ELSE sl

\* The shooting condition without its `last_shot != turn` conjunct.
ShootConditionNoTurnGuard(self, c, P, K, sl, ls, t) ==
  /\ is_adjacent(P[c], P[self])
  /\ IsInstance(K[c], "Zombie")
  /\ sl > 0

\* Hunter.interact, the condition under which it shoots character c.
ShootCondition(self, c, P, K, sl, ls, t) ==
  /\ is_adjacent(P[c], P[self])
  /\ IsInstance(K[c], "Zombie")
  /\ sl > 0
  /\ ls # t

\* Hunter.interact, the scan of positions.keys(): every result of visiting
\* the agents of keys in some order.
RECURSIVE HunterScan(_, _, _, _, _, _, _)
HunterScan(self, keys, P, K, sl, ls, t) ==
  IF keys = {}
  THEN {[positions |-> P, slugs_left |-> sl, last_shot |-> ls]}
  ELSE UNION {IF ShootCondition(self, c, P, K, sl, ls, t)
              THEN HunterScan(self, keys \ {c}, remove(P, c), K, sl - 1, t, t)
              ELSE HunterScan(self, keys \ {c}, P, K, sl, ls, t) : c \in keys}

\* Zombie.interact testing the exact class instead of isinstance: a Hunter
\* on the Zombie's square is not turned.
TurnedPlainHumans(self, P, K) ==
  {c \in DOMAIN P : P[c] = P[self] /\ K[c] = "Human"}

\* Zombie.interact stopping at the first Human-kind agent it finds.
TurnedOne(self, P, K) ==
  LET T == {c \in DOMAIN P : P[c] = P[self] /\ IsInstance(K[c], "Human")}
  IN IF T = {} THEN {} ELSE {CHOOSE c \in T : TRUE}

\* Zombie.interact: the agents it turns, the Human-kind ones on its square.
Turned(self, P, K) ==
  {c \in DOMAIN P : P[c] = P[self] /\ IsInstance(K[c], "Human")}

\* The class assignment with its sides swapped, `self.__class__ =
\* character.__class__`: the Zombie takes the class of an agent of T.
TurnClassSwapped(self, K, T) ==
  IF T = {} THEN K ELSE [K EXCEPT ![self] = K[CHOOSE c \in T : TRUE]]

\* Zombie.interact, `character.__class__ = self.__class__` for every agent
\* of T: the classes afterwards.
TurnClass(self, K, T) ==
  [c \in DOMAIN K |-> IF c \in T THEN K[self] ELSE K[c]]

(* ---------------- the run loop and its phases -------------------------- *)
\* The loop condition run()'s docstring describes: "until no Humans left".
RunConditionHumansOnly ==
  count_of(positions, class, "Human") > 0

\* ZombieInvasionRunner.run, the while condition.
RunCondition ==
  count_of(positions, class, "Human") > 0 /\ count_of(positions, class, "Zombie") # 0

\* run() tests its condition and either starts make_turn, whose
\* process_character_interactions copies positions.keys(), or returns.
RunLoop ==
  /\ pc = "run"
  /\ IF RunCondition
     THEN /\ turn < MaxTurn
          /\ pc' = "interact"
          /\ todo' = DOMAIN positions
     ELSE /\ pc' = "done"
          /\ todo' = {}
  /\ UNCHANGED <<character_types, npaces, hunted, positions, class, slugs_left, last_shot,
                 last_hunted, turn, newpos>>

\* process_character_interactions visits an agent removed earlier in the
\* phase: the KeyError is caught and the agent skipped.
InteractRemoved(a) ==
  /\ pc = "interact"
  /\ a \in todo
  /\ a \notin DOMAIN positions
  /\ todo' = todo \ {a}
  /\ UNCHANGED <<character_types, npaces, hunted, positions, class, slugs_left, last_shot,
                 last_hunted, turn, pc, newpos>>

\* Character.interact, which Human inherits: nothing.
HumanInteract(a) ==
  /\ pc = "interact"
  /\ a \in todo
  /\ a \in DOMAIN positions
  /\ class[a] = "Human"
  /\ todo' = todo \ {a}
  /\ UNCHANGED <<character_types, npaces, hunted, positions, class, slugs_left, last_shot,
                 last_hunted, turn, pc, newpos>>

\* Hunter.interact dispatched on the class the agent was constructed with: a
\* turned Hunter still shoots.
HunterInteractByInitialClass(a) ==
  /\ pc = "interact"
  /\ a \in todo
  /\ a \in DOMAIN positions
  /\ InitialClass(a) = "Hunter"
  /\ \E r \in HunterScan(a, DOMAIN positions, positions, class,
                         ReloadCheck(slugs_left[a], last_shot[a], turn),
                         last_shot[a], turn) :
       /\ positions' = r.positions
       /\ slugs_left' = [slugs_left EXCEPT ![a] = r.slugs_left]
       /\ last_shot' = [last_shot EXCEPT ![a] = r.last_shot]
  /\ todo' = todo \ {a}
  /\ UNCHANGED <<character_types, npaces, hunted, class, last_hunted, turn, pc, newpos>>

HunterInteract(a) ==
  /\ pc = "interact"
  /\ a \in todo
  /\ a \in DOMAIN positions
  /\ class[a] = "Hunter"
  /\ \E r \in HunterScan(a, DOMAIN positions, positions, class,
                         ReloadCheck(slugs_left[a], last_shot[a], turn),
                         last_shot[a], turn) :
       /\ positions' = r.positions
       /\ slugs_left' = [slugs_left EXCEPT ![a] = r.slugs_left]
       /\ last_shot' = [last_shot EXCEPT ![a] = r.last_shot]
  /\ todo' = todo \ {a}
  /\ UNCHANGED <<character_types, npaces, hunted, class, last_hunted, turn, pc, newpos>>

ZombieInteract(a) ==
  /\ pc = "interact"
  /\ a \in todo
  /\ a \in DOMAIN positions
  /\ class[a] = "Zombie"
  /\ class' = TurnClass(a, class, Turned(a, positions, class))
  /\ last_hunted' = [c \in DOMAIN last_hunted |->
                       IF c \in Turned(a, positions, class) THEN None
                       ELSE last_hunted[c]]
  /\ hunted' = [c \in DOMAIN hunted |->
                  IF c \in Turned(a, positions, class) THEN {} ELSE hunted[c]]
  /\ todo' = todo \ {a}
  /\ UNCHANGED <<character_types, npaces, positions, slugs_left, last_shot, turn, pc, newpos>>

\* make_turn: process_character_interactions has returned, move_characters
\* starts iterating the dictionary.
StartMove ==
  /\ pc = "interact"
  /\ todo = {}
  /\ pc' = "move"
  /\ todo' = DOMAIN positions
  /\ UNCHANGED <<character_types, npaces, hunted, positions, class, slugs_left, last_shot,
                 last_hunted, turn, newpos>>

\* move_characters, one iteration for a Human or a Hunter.
MoveHuman(a) ==
  /\ pc = "move"
  /\ a \in todo
  /\ IsInstance(class[a], "Human")
  /\ \E np \in HumanMove(positions[a]) :
       /\ newpos' = np
       /\ positions' = MoveCommit(positions, a, np)
  /\ todo' = todo \ {a}
  /\ UNCHANGED <<character_types, npaces, hunted, class, slugs_left, last_shot, last_hunted, turn, pc>>

\* move_characters, one iteration for a Zombie.
MoveZombie(a) ==
  /\ pc = "move"
  /\ a \in todo
  /\ class[a] = "Zombie"
  /\ \E r \in ZombieMove(positions[a], last_hunted[a], positions, class,
                        ZombieSelfNpaces(a, npaces)) :
       /\ newpos' = r.newpos
       /\ last_hunted' = [last_hunted EXCEPT ![a] = r.last_hunted]
       /\ hunted' = [hunted EXCEPT ![a] = HuntedBy(positions[a], r.last_hunted,
                                                   positions, class)]
       /\ positions' = MoveCommit(positions, a, r.newpos)
  /\ todo' = todo \ {a}
  /\ UNCHANGED <<character_types, npaces, class, slugs_left, last_shot, turn, pc>>

\* make_turn without `self.turn += 1`.
EndTurnNoIncrement ==
  /\ pc = "move"
  /\ todo = {}
  /\ pc' = "run"
  /\ newpos' = None
  /\ UNCHANGED <<character_types, npaces, hunted, positions, class, slugs_left, last_shot,
                 last_hunted, todo, turn>>

\* make_turn: move_characters has returned, the turn counter advances and
\* run() is back at its condition.
EndTurn ==
  /\ pc = "move"
  /\ todo = {}
  /\ turn' = turn + 1
  /\ pc' = "run"
  /\ newpos' = None
  /\ UNCHANGED <<character_types, npaces, hunted, positions, class, slugs_left, last_shot,
                 last_hunted, todo>>

Next ==
  \/ RunLoop
  \/ \E a \in Agents : InteractRemoved(a)
  \/ \E a \in Agents : HumanInteract(a)
  \/ \E a \in Agents : HunterInteract(a)
  \/ \E a \in Agents : ZombieInteract(a)
  \/ StartMove
  \/ \E a \in Agents : MoveHuman(a)
  \/ \E a \in Agents : MoveZombie(a)
  \/ EndTurn

Spec == Init /\ [][Next]_vars

(* ======================= properties ==================================== *)
HumanKindCount == count_of(positions, class, "Human")
ZombieCount == count_of(positions, class, "Zombie")
TotalCount == Cardinality(DOMAIN positions)
InGrid(p) == p[1] \in 0..(X - 1) /\ p[2] \in 0..(Y - 1)
\* The agent whose iteration of the current phase's loop this step is.
Visited(a) == a \in todo /\ a \notin todo'

\* C1: in every reachable state, from the state right after seeding on, every
\* coordinate stored in the agent -> coordinate mapping satisfies 0 <= x < X
\* and 0 <= y < Y.
C1_PositionsInGrid ==
  \A a \in DOMAIN positions :
    /\ 0 <= positions[a][1] /\ positions[a][1] < X
    /\ 0 <= positions[a][2] /\ positions[a][2] < Y

\* C2: agents are never created after seeding: no step adds an agent, raises
\* the Human-kind count or the total; a step that turns agents lowers the
\* Human-kind count and raises the Zombie count by the same amount and keeps
\* the total; a step of the move phase changes neither the set of present
\* agents nor any agent's class.
C2_NoCreation ==
  [][/\ DOMAIN positions' \subseteq DOMAIN positions
     /\ DOMAIN class' = DOMAIN class
     /\ count_of(positions', class', "Human") <= HumanKindCount
     /\ Cardinality(DOMAIN positions') <= TotalCount
     /\ (\E c \in DOMAIN class : class'[c] # class[c]) =>
          /\ DOMAIN positions' = DOMAIN positions
          /\ count_of(positions', class', "Human") < HumanKindCount
          /\ HumanKindCount - count_of(positions', class', "Human")
               = count_of(positions', class', "Zombie") - ZombieCount
     /\ pc = "move" =>
          /\ DOMAIN positions' = DOMAIN positions
          /\ class' = class]_vars

\* A Human-kind agent has been turned into a Zombie and has moved since.
C2_Witness ==
  /\ pc = "move"
  /\ \E a \in DOMAIN positions :
       InitialClass(a) # "Zombie" /\ class[a] = "Zombie" /\ a \notin todo

\* C3: with character_types = (Human, Zombie), count_of(Human) +
\* count_of(Zombie) equals Human.initial + Zombie.initial in every reachable
\* state, and when run() has returned count_of(Human) is 0 and
\* count_of(Zombie) is Human.initial + Zombie.initial.
C3_TestConfigCounts ==
  character_types = TestCharacterTypes =>
    /\ HumanKindCount + ZombieCount = NumHumans + NumZombies
    /\ pc = "done" =>
         /\ HumanKindCount = 0
         /\ ZombieCount = NumHumans + NumZombies

\* run() has returned under the (Human, Zombie) configuration.
C3_Witness ==
  character_types = TestCharacterTypes /\ pc = "done"

C6_ForfeitOrCommit ==
  [][/\ (pc = "interact" /\ pc' = "move") => todo' = DOMAIN positions'
     /\ (pc = "move" /\ pc' = "move") =>
          \E a \in todo :
            /\ todo' = todo \ {a}
            /\ a \in DOMAIN positions
            /\ DOMAIN positions' = DOMAIN positions
            /\ positions'[a] = IF InGrid(newpos') THEN newpos' ELSE positions[a]
            /\ \A b \in (DOMAIN positions) \ {a} : positions'[b] = positions[b]
     /\ (pc = "move" /\ pc' # "move") => (todo = {} /\ positions' = positions)]_vars

\* A move has just been forfeited: the coordinate move returned is out of
\* bounds and the agent visited last is still where the grid allows it.
C6_Witness ==
  /\ pc = "move"
  /\ newpos # None
  /\ ~InGrid(newpos)
  /\ \E a \in (DOMAIN positions) \ todo : InGrid(positions[a])

\* What visiting agent a in the move phase can make of a's coordinate, on
\* dictionary P.
MoveResults(a, P) ==
  IF class[a] = "Zombie"
  THEN {MoveCommit(P, a, r.newpos)[a] : r \in ZombieMove(P[a], last_hunted[a], P, class, ZombieSelfNpaces(a, npaces))}
  ELSE {MoveCommit(P, a, np)[a] : np \in HumanMove(P[a])}

\* The dictionaries the move phase can hold after visiting agent b.
AfterMove(b) ==
  IF class[b] = "Zombie"
  THEN {MoveCommit(positions, b, r.newpos) :
          r \in ZombieMove(positions[b], last_hunted[b], positions, class,
                        ZombieSelfNpaces(b, npaces))}
  ELSE {MoveCommit(positions, b, np) : np \in HumanMove(positions[b])}

\* C7 (as stated): in the move phase the processing order affects no agent's
\* outcome: for any two agents a and b still to visit, what a's visit can make
\* of a's coordinate is the same whether b is visited before a or not.  Stated
\* of the states whose coordinates all lie in the grid.
C7_OrderIndependent ==
  (pc = "move" /\ \A c \in DOMAIN positions : InGrid(positions[c])) =>
    \A a \in todo : \A b \in todo \ {a} : \A P \in AfterMove(b) :
      MoveResults(a, P) = MoveResults(a, positions)

\* C7 (amended): a Human's or Hunter's outcome does not depend on which agents
\* were visited before it, and a Zombie's outcome does not depend on which
\* other Zombies were visited before it; a Zombie's targeting reads the live
\* positions of the Human-kind agents, so its outcome does depend on the
\* Human-kind agents that moved before it.
C7_OrderIndependentAmended ==
  pc = "move" =>
    \A a \in todo : \A b \in todo \ {a} :
      (IsInstance(class[a], "Human") \/ class[b] = "Zombie") =>
        \A P \in AfterMove(b) : MoveResults(a, P) = MoveResults(a, positions)

\* Two Zombies on different squares are still to move, one of them can move,
\* and a Human-kind agent is there to be hunted.
C7_Witness ==
  /\ pc = "move"
  /\ \E a \in todo : \E b \in todo \ {a} :
       /\ class[a] = "Zombie"
       /\ class[b] = "Zombie"
       /\ positions[a] # positions[b]
       /\ \E P \in AfterMove(b) : P # positions
       /\ find_nearest(positions[a], positions, class) # {}

\* C8: when a Zombie's interact runs, every present Human-kind agent on the
\* Zombie's square becomes a Zombie in place, however many there are: it stays
\* in the mapping at its coordinate and its last_hunted is None; every other
\* agent keeps its class, coordinate and last_hunted; and an agent that is a
\* Zombie stays one in every later step.
C8_ZombieTurnsAll ==
  [][/\ \A z \in DOMAIN positions :
          (pc = "interact" /\ Visited(z) /\ class[z] = "Zombie") =>
            /\ positions' = positions
            /\ \A c \in DOMAIN positions :
                 IF positions[c] = positions[z] /\ class[c] \in {"Human", "Hunter"}
                 THEN class'[c] = "Zombie" /\ last_hunted'[c] = None
                 ELSE class'[c] = class[c] /\ last_hunted'[c] = last_hunted[c]
     /\ \A c \in DOMAIN class : class[c] = "Zombie" => class'[c] = "Zombie"]_vars

\* The Human and the Hunter, standing on one square, have been turned by the
\* same Zombie interact: no agent shares a square with a Zombie at seeding and
\* this is the interact phase of turn 1.
C8_Witness ==
  /\ pc = "interact"
  /\ turn = 1
  /\ \E a \in HumanIds : \E b \in HunterIds :
       /\ a \in DOMAIN positions /\ b \in DOMAIN positions
       /\ class[a] = "Zombie" /\ class[b] = "Zombie"
       /\ positions[a] = positions[b]

\* C9: in one interact phase a Hunter's interact runs at most once, it removes
\* at most one agent and lowers the Hunter's slugs by at most 1, whatever the
\* number of adjacent Zombies; outside its own interact the Hunter's slugs do
\* not change.
C9_OneShotPerTurn ==
  [][/\ (pc = "interact" /\ pc' = "interact") => (todo' \subseteq todo /\ todo' # todo)
     /\ Cardinality((DOMAIN positions) \ DOMAIN positions') <= 1
     /\ \A h \in DOMAIN slugs_left :
          IF pc = "interact" /\ Visited(h)
          THEN /\ slugs_left'[h] >= slugs_left[h] - 1
               /\ (DOMAIN positions' # DOMAIN positions) => last_shot'[h] = turn
               /\ last_shot'[h] # last_shot[h] => DOMAIN positions' # DOMAIN positions
          ELSE slugs_left'[h] = slugs_left[h] /\ last_shot'[h] = last_shot[h]]_vars

\* A Hunter has fired in this interact phase with two Zombies adjacent to it:
\* the turned Human was shot and the seeded Zombie still stands next to it.
C9_Witness ==
  /\ pc = "interact"
  /\ \E h \in DOMAIN slugs_left : \E z \in ZombieIds :
       /\ h \in DOMAIN positions /\ z \in DOMAIN positions
       /\ class[h] = "Hunter"
       /\ last_shot[h] = turn
       /\ Abs(positions[h][1] - positions[z][1]) = 1
       /\ Abs(positions[h][2] - positions[z][2]) = 1
       /\ HumanIds \cap DOMAIN positions = {}

\* C10: an agent leaves the mapping only in the interact phase, only as a
\* Zombie, and only in the interact of a present Hunter whose coordinate
\* differs from the Zombie's by exactly 1 on both axes and whose slugs at the
\* shot (the slugs left afterwards plus one: its slugs before, or a full
\* reload) are > 0.  is_adjacent((0,0),(1,1)) is true, is_adjacent((0,0),(1,0))
\* is false.
C10_RemovalOnlyByShot ==
  [][/\ is_adjacent(<<0, 0>>, <<1, 1>>)
     /\ ~is_adjacent(<<0, 0>>, <<1, 0>>)
     /\ \A c \in (DOMAIN positions) \ DOMAIN positions' :
          /\ pc = "interact"
          /\ class[c] = "Zombie"
          /\ \E h \in (DOMAIN positions) \cap DOMAIN slugs_left :
               /\ Visited(h)
               /\ class[h] = "Hunter"
               /\ Abs(positions[h][1] - positions[c][1]) = 1
               /\ Abs(positions[h][2] - positions[c][2]) = 1
               /\ slugs_left'[h] + 1 > 0
               /\ slugs_left'[h] + 1 \in {slugs_left[h], slugs}
               /\ last_shot'[h] = turn]_vars

\* A Zombie has been shot: an agent is gone from the mapping and a Hunter has
\* fewer slugs than it started with.
C10_Witness ==
  /\ \E c \in DOMAIN class : c \notin DOMAIN positions
  /\ \E h \in DOMAIN slugs_left : slugs_left[h] < slugs

\* C12: for every Human or Hunter move, the displacement between the
\* coordinate passed to move and the coordinate it returns is never (0,0) and
\* its Euclidean length is at most npaces (compared as squares).
C12_HumanDisplacement ==
  [][\A a \in DOMAIN positions :
       (pc = "move" /\ Visited(a) /\ class[a] \in {"Human", "Hunter"}) =>
         /\ newpos' # positions[a]
         /\ (newpos'[1] - positions[a][1]) * (newpos'[1] - positions[a][1])
              + (newpos'[2] - positions[a][2]) * (newpos'[2] - positions[a][2])
              <= HumanNpaces * HumanNpaces]_vars

\* A Human-kind agent has just moved and its move was committed.
C12_Witness ==
  /\ pc = "move"
  /\ newpos # None
  /\ \E a \in (DOMAIN positions) \ todo :
       class[a] \in {"Human", "Hunter"} /\ positions[a] = newpos

\* The eight compass headings of length n per axis.
EightHeadings(n) == ({0, n, -n} \X {0, n, -n}) \ {<<0, 0>>}

\* C13: the displacement vectors a Human move can produce are exactly the
\* eight compass headings: every nonzero vector with both components in
\* {0, +npaces, -npaces}, the four diagonals included, and no other.
C13_EightHeadings ==
  \A a \in DOMAIN positions :
    class[a] \in {"Human", "Hunter"} =>
      {<<np[1] - positions[a][1], np[2] - positions[a][2]>> :
         np \in HumanMove(positions[a])} = EightHeadings(HumanNpaces)

\* C15: within one interact phase the mutations made by agents processed
\* earlier are seen by those processed later: an agent removed earlier in the
\* phase is skipped when its turn comes (nothing changes), and an agent whose
\* class is Zombie when its turn comes, a Human or Hunter turned earlier in the
\* phase included, runs the Zombie rule: it removes nobody, fires no shot and
\* turns the Human-kind agents on its square.
C15_LiveView ==
  [][\A a \in DOMAIN class :
       (pc = "interact" /\ Visited(a)) =>
         /\ a \notin DOMAIN positions =>
              /\ positions' = positions /\ class' = class
              /\ slugs_left' = slugs_left /\ last_shot' = last_shot
              /\ last_hunted' = last_hunted
         /\ (a \in DOMAIN positions /\ class[a] = "Zombie") =>
              /\ positions' = positions
              /\ slugs_left' = slugs_left /\ last_shot' = last_shot
              /\ \A c \in DOMAIN positions :
                   (positions[c] = positions[a] /\ class[c] \in {"Human", "Hunter"})
                     => class'[c] = "Zombie"]_vars

\* In the interact phase of turn 1 a Hunter with slugs left has been turned
\* by the Zombie on its square and is still to be processed. No agent shares a
\* square with a Zombie at seeding, so the turning is this phase's.
C15_Witness ==
  /\ pc = "interact"
  /\ turn = 1
  /\ \E b \in HunterIds \cap todo : \E z \in ZombieIds \ todo :
       /\ {b, z} \subseteq DOMAIN positions
       /\ class[b] = "Zombie"
       /\ positions[z] = positions[b]
       /\ slugs_left[b] > 0

\* C19: at the end of every interact phase no present Human-kind agent shares
\* a coordinate with a present Zombie.
C19_NoCoLocationAfterInteract ==
  (pc = "interact" /\ todo = {}) =>
    \A a \in DOMAIN positions : \A b \in DOMAIN positions :
      (class[a] \in {"Human", "Hunter"} /\ class[b] = "Zombie")
        => positions[a] # positions[b]

\* The interact phase of turn 1 has ended and turned an agent: no agent shares
\* a square with a Zombie at seeding, so the co-location arose in turn 0's
\* move phase and was resolved in this phase.
C19_Witness ==
  /\ pc = "interact"
  /\ todo = {}
  /\ turn = 1
  /\ \E a \in DOMAIN positions : InitialClass(a) # "Zombie" /\ class[a] = "Zombie"

\* C20: a pursuing Zombie's move is never forfeited: when a Human-kind agent
\* stands at nonzero distance, the coordinate the Zombie's move returns lies in
\* the grid and is committed; a move that returns a coordinate outside the
\* grid is a Human's or a Hunter's; and a Zombie inside the grid is inside the
\* grid after every step.
C20_ZombieNeverForfeits ==
  [][\A a \in DOMAIN positions :
       /\ (pc = "move" /\ Visited(a)) =>
            /\ (/\ class[a] = "Zombie"
                /\ \E c \in DOMAIN positions :
                     class[c] \in {"Human", "Hunter"} /\ positions[c] # positions[a])
                 => (InGrid(newpos') /\ positions'[a] = newpos')
            /\ ~InGrid(newpos') => class[a] \in {"Human", "Hunter"}
       /\ (class[a] = "Zombie" /\ InGrid(positions[a]) /\ a \in DOMAIN positions')
            => InGrid(positions'[a])]_vars

\* A Zombie hunting a target has just moved onto the coordinate its move
\* returned.
C20_Witness ==
  /\ pc = "move"
  /\ newpos # None
  /\ \E z \in (DOMAIN positions) \ todo :
       /\ class[z] = "Zombie"
       /\ last_hunted[z] # None
       /\ positions[z] = newpos
       /\ \E c \in DOMAIN positions : class[c] \in {"Human", "Hunter"}

(* ---------------- CharacterTestCase: Zombie.move called directly -------- *)
\* The largest npaces the test sets on its Zombie (the source sets X * Y,
\* which reaches every distance on the grid, as MaxNpaces does here).
MaxNpaces == 5

\* setUp's self.human and self.zombie, and a Hunter placed the same way.
TestHuman == CHOOSE a \in HumanIds : TRUE
TestHunter == CHOOSE a \in HunterIds : TRUE
TestZombie == CHOOSE a \in ZombieIds : TRUE

\* After setUp, grid.positions[self.human] = ... and self.zombie.npaces = ...:
\* the Human-kind agents stand on any grid squares, the Zombie is not in the
\* dictionary and pos, held in newpos, is any coordinate a Zombie is seeded on.
InitZombieTest ==
  /\ character_types = DefaultCharacterTypes
  /\ \E S \in (SUBSET {TestHuman, TestHunter}) \ {{}} :
       positions \in [S -> CharacterRandomPositions]
  /\ class = [a \in {TestHuman, TestHunter, TestZombie} |-> InitialClass(a)]
  /\ slugs_left = [a \in {TestHunter} |-> slugs]
  /\ last_shot = [a \in {TestHunter} |-> NoShot]
  /\ last_hunted = [a \in {TestHuman, TestHunter, TestZombie} |-> None]
  /\ turn = 0
  /\ pc = "test"
  /\ todo = {}
  /\ newpos \in ZombieRandomPositions({})
  /\ npaces \in [{TestZombie} -> 1..MaxNpaces]
  /\ hunted = [a \in {TestHuman, TestHunter, TestZombie} |-> {}]

\* newpos = self.zombie.move(pos)
ZombieTestMove ==
  /\ pc = "test"
  /\ \E r \in ZombieMove(newpos, last_hunted[TestZombie], positions, class,
                        ZombieSelfNpaces(TestZombie, npaces)) :
       /\ newpos' = r.newpos
       /\ last_hunted' = [last_hunted EXCEPT ![TestZombie] = r.last_hunted]
       /\ hunted' = [hunted EXCEPT ![TestZombie] = HuntedBy(newpos, r.last_hunted,
                                                            positions, class)]
  /\ pc' = "moved"
  /\ UNCHANGED <<character_types, npaces, positions, class, slugs_left, last_shot,
                 turn, todo>>

\* The next call is made from the coordinate the last one returned.
ZombieTestAgain ==
  /\ pc = "moved"
  /\ pc' = "test"
  /\ UNCHANGED <<character_types, npaces, hunted, positions, class, slugs_left, last_shot,
                 last_hunted, turn, todo, newpos>>

NextZombieTest == ZombieTestMove \/ ZombieTestAgain

SpecZombieTest == InitZombieTest /\ [][NextZombieTest]_vars

\* The calls go on: nothing in the test loop can block.
SpecZombieTestFair == SpecZombieTest /\ WF_vars(NextZombieTest)

Max(m, n) == IF m >= n THEN m ELSE n
Min(m, n) == IF m <= n THEN m ELSE n
Sgn(n) == IF n > 0 THEN 1 ELSE IF n < 0 THEN -1 ELSE 0
\* The Chebyshev distance max(|dx|, |dy|).
Cheb(p, q) == Max(Abs(p[1] - q[1]), Abs(p[2] - q[2]))
\* The coordinate of the only agent placed.
OnlyPlaced == positions[CHOOSE a \in DOMAIN positions : TRUE]

\* C14: with a single Human-kind agent staying at h, a Zombie move from p # h
\* strictly decreases the Chebyshev distance to h, a move with npaces >= that
\* distance returns exactly h, a move from h returns h, and the repeated moves
\* reach h and stay there.
C14_ZombieReachesHuman ==
  /\ [][(pc = "test" /\ Cardinality(DOMAIN positions) = 1) =>
          /\ newpos # OnlyPlaced => Cheb(newpos', OnlyPlaced) < Cheb(newpos, OnlyPlaced)
          /\ npaces[TestZombie] >= Cheb(newpos, OnlyPlaced) => newpos' = OnlyPlaced
          /\ newpos = OnlyPlaced => newpos' = OnlyPlaced]_vars
  /\ <>[](Cardinality(DOMAIN positions) = 1 => newpos = OnlyPlaced)

\* A Zombie of npaces 1 has hunted the only Human-kind agent and a move has
\* returned the agent's coordinate.
C14_Witness ==
  /\ pc = "moved"
  /\ Cardinality(DOMAIN positions) = 1
  /\ npaces[TestZombie] = 1
  /\ last_hunted[TestZombie] = OnlyPlaced
  /\ newpos = OnlyPlaced

\* C16: Zombie.move(pos) returns pos when no Human-kind agent is at nonzero
\* distance from pos; otherwise it returns the end of a walk from pos toward a
\* Human-kind coordinate t at the least nonzero Euclidean distance: on each
\* axis, min(npaces, |offset to t|) units toward t.
C16_ZombieMoveRule ==
  [][pc = "test" =>
       LET pos == newpos
           n == npaces[TestZombie]
           HK == {positions[c] : c \in {d \in DOMAIN positions :
                                          class[d] \in {"Human", "Hunter"}}} \ {pos}
       IN IF HK = {}
          THEN newpos' = pos
          ELSE \E t \in HK :
                 /\ \A u \in HK : Dist(pos, t) <= Dist(pos, u)
                 /\ newpos' = <<pos[1] + Sgn(t[1] - pos[1]) * Min(n, Abs(t[1] - pos[1])),
                                pos[2] + Sgn(t[2] - pos[2]) * Min(n, Abs(t[2] - pos[2]))>>]_vars

\* A Zombie of npaces 2 standing on one Human-kind agent's square has walked
\* toward the other, which it has not reached.
C16_Witness ==
  /\ pc = "moved"
  /\ Cardinality(DOMAIN positions) = 2
  /\ npaces[TestZombie] = 2
  /\ last_hunted[TestZombie] # None
  /\ newpos # last_hunted[TestZombie]
  /\ last_hunted[TestZombie] = positions[TestHunter]
  /\ Cheb(newpos, positions[TestHuman]) = 2

\* C17: a Zombie keeps hunting the same Human while that Human is among the
\* nearest: when an agent the Zombie walked to at its previous move is present,
\* Human-kind and, at its current coordinate, in the nearest set of this move,
\* the Zombie walks to the current coordinate of such an agent.
C17_KeepsHunting ==
  [][\A a \in DOMAIN positions :
       (pc = "move" /\ Visited(a) /\ class[a] = "Zombie") =>
         LET nearest == find_nearest(positions[a], positions, class)
             prev == {c \in hunted[a] \cap DOMAIN positions :
                        /\ class[c] \in {"Human", "Hunter"}
                        /\ positions[c] \in nearest}
         IN prev # {} => last_hunted'[a] \in {positions[c] : c \in prev}]_vars

(* ---------------- a Hunter's interact phases, Zombies placed by hand --- *)
\* The turns the Hunter test runs: three shots (turns 0..2), reload_turns
\* silent turns and the turn of the first shot after the refill fit in.
MaxTestTurn == 7

\* A grid holding one fresh Hunter, as Hunter(grid) and
\* grid.positions[hunter] = ... leave it; the Zombie is created and not placed.
InitHunterTest ==
  /\ character_types = DefaultCharacterTypes
  /\ positions \in [{TestHunter} -> CharacterRandomPositions]
  /\ class = [a \in {TestHunter, TestZombie} |-> InitialClass(a)]
  /\ slugs_left = [a \in {TestHunter} |-> slugs]
  /\ last_shot = [a \in {TestHunter} |-> NoShot]
  /\ last_hunted = [a \in {TestHunter, TestZombie} |-> None]
  /\ turn = 0
  /\ pc = "place"
  /\ todo = {}
  /\ newpos = None
  /\ npaces = << >>
  /\ hunted = [a \in {TestHunter, TestZombie} |-> {}]

\* grid.positions[zombie] = p, between two interact phases: it stands for the
\* move phase, in which the Zombies of a full population come and go.
TestPlaceZombie(p) ==
  /\ pc = "place"
  /\ positions' = [a \in DOMAIN positions \cup {TestZombie} |->
                     IF a = TestZombie THEN p ELSE positions[a]]
  /\ UNCHANGED <<character_types, npaces, hunted, class, slugs_left, last_shot,
                 last_hunted, turn, pc, todo, newpos>>

\* process_character_interactions is called: it iterates positions.keys().
TestStartInteract ==
  /\ pc = "place"
  /\ turn < MaxTestTurn
  /\ pc' = "interact"
  /\ todo' = DOMAIN positions
  /\ UNCHANGED <<character_types, npaces, hunted, positions, class, slugs_left,
                 last_shot, last_hunted, turn, newpos>>

\* process_character_interactions has returned; make_turn's `self.turn += 1`.
TestEndTurn ==
  /\ pc = "interact"
  /\ todo = {}
  /\ turn' = turn + 1
  /\ pc' = "place"
  /\ UNCHANGED <<character_types, npaces, hunted, positions, class, slugs_left,
                 last_shot, last_hunted, todo, newpos>>

NextHunterTest ==
  \/ \E p \in CharacterRandomPositions : TestPlaceZombie(p)
  \/ TestStartInteract
  \/ \E a \in Agents : InteractRemoved(a)
  \/ \E a \in Agents : HunterInteract(a)
  \/ \E a \in Agents : ZombieInteract(a)
  \/ TestEndTurn

SpecHunterTest == InitHunterTest /\ [][NextHunterTest]_vars

\* A Zombie stands diagonally next to agent h.
ZombieAdjacent(h) ==
  \E z \in DOMAIN positions :
    /\ class[z] = "Zombie"
    /\ Abs(positions[z][1] - positions[h][1]) = 1
    /\ Abs(positions[z][2] - positions[h][2]) = 1

\* C11: a Hunter with no slugs left whose last shot is older than reload_turns
\* (turn - last_shot > reload_turns, or no shot ever fired) is refilled at its
\* next interact call before the shots are evaluated: with a Zombie adjacent it
\* fires in that call (one Zombie removed, slugs - 1 left, last_shot = turn),
\* with none it keeps the full slugs.
C11_ReloadThenShoot ==
  [][\A h \in DOMAIN positions :
       (/\ pc = "interact" /\ Visited(h) /\ class[h] = "Hunter"
        /\ slugs_left[h] = 0
        /\ (last_shot[h] = NoShot \/ turn - last_shot[h] > reload_turns)) =>
         IF ZombieAdjacent(h)
         THEN /\ slugs_left'[h] = slugs - 1
              /\ last_shot'[h] = turn
              /\ Cardinality(DOMAIN positions') = Cardinality(DOMAIN positions) - 1
         ELSE /\ slugs_left'[h] = slugs
              /\ last_shot'[h] = last_shot[h]
              /\ positions' = positions]_vars

\* A Hunter that has shot holds the full slugs again after the interact call
\* of the first turn in which the reload check passes: the refill is this
\* call's.
C11_Witness ==
  /\ pc = "interact"
  /\ \E h \in (DOMAIN positions) \ todo :
       /\ class[h] = "Hunter"
       /\ last_shot[h] # NoShot
       /\ turn - last_shot[h] = reload_turns + 1
       /\ slugs_left[h] = slugs

\* C18: reloading takes reload_turns turns: a Hunter whose shot of turn t
\* took its last slug fires no shot and removes no Zombie in the turns
\* t+1 .. t+reload_turns, whatever Zombies are adjacent, and in turn
\* t+reload_turns+1 it fires at an adjacent Zombie.
C18_ReloadTakesReloadTurns ==
  [][\A h \in DOMAIN positions :
       (/\ pc = "interact" /\ Visited(h) /\ class[h] = "Hunter"
        /\ slugs_left[h] = 0 /\ last_shot[h] # NoShot) =>
         /\ turn - last_shot[h] <= reload_turns =>
              /\ positions' = positions
              /\ slugs_left' = slugs_left
              /\ last_shot' = last_shot
         /\ (turn - last_shot[h] = reload_turns + 1 /\ ZombieAdjacent(h)) =>
              /\ last_shot'[h] = turn
              /\ \E z \in DOMAIN positions :
                   class[z] = "Zombie" /\ z \notin DOMAIN positions']_vars

\* In the last turn of the reload, t + reload_turns, the Hunter has been
\* visited with a Zombie diagonally next to it: the Zombie is still there and
\* the Hunter has no slugs.
C18_Witness ==
  /\ pc = "interact"
  /\ \E h \in (DOMAIN positions) \ todo :
       /\ class[h] = "Hunter"
       /\ slugs_left[h] = 0
       /\ last_shot[h] # NoShot
       /\ turn - last_shot[h] = reload_turns
       /\ \E z \in ZombieIds \cap DOMAIN positions :
            /\ Abs(positions[z][1] - positions[h][1]) = 1
            /\ Abs(positions[z][2] - positions[h][2]) = 1

====
